---- MODULE Spec2Model ----
(***************************************************************************)
(* DevDocs: the two /api/chat route handlers of the frontend, the Chat      *)
(* component that calls them, and the backend's documented context         *)
(* management.  The two route handlers:                                    *)
(*   - the whole-response fallback route (stream: false), which slices the *)
(*     backend's complete answer into text-delta events of chunkSize code  *)
(*     units, and                                                          *)
(*   - the streaming passthrough route (stream: true), which re-frames the *)
(*     backend's SSE byte stream on double newlines.                       *)
(* Both run against a WHATWG ReadableStream default controller and a       *)
(* consumer that may read or cancel at any time.  Spec is one request to   *)
(* one route; SpecTurns is several overlapping requests; SpecChat is the   *)
(* Chat component; SpecContext is the documented context compaction and    *)
(* prompt building.                                                        *)
(***************************************************************************)
EXTENDS Integers, Sequences, FiniteSets, TLC

(* ------------------------------ bounds --------------------------------- *)
\* longest assistant text (UTF-16 code units) the backend returns
MaxLen == 45
\* number of different text patterns per length
MaxSeed == 3
\* most bytes the upstream body delivers in one run of the passthrough route
MaxUp == 5
\* number of POST requests that may overlap
MaxRequests == 2
\* most messages one Chat instance sends, and longest input typed
MaxSends == 2
MaxInput == 2
\* longest conversation history handed to the context manager
MaxHistory == 26

(* --------------------------- program constants ------------------------- *)
chunkSize == 20

VARIABLES
    route,             \* which route file handles the request: "fallback" | "stream"
    pc,                \* position of POST / of the stream's start callback
    reqBody,           \* the inbound request body (its shape)
    fetches,           \* number of fetch calls issued to the backend
    backendResponse,   \* what fetch resolved to
    response,          \* what POST returned
    controller,        \* ReadableStreamDefaultController: state, queue, log of enqueues
    got,               \* chunks the consumer has read from the output stream
    assistantMessage,  \* fallback: backendData.message?.content || ''
    index,             \* fallback: let index
    isClosed,          \* fallback: let isClosed
    scheduled,         \* fallback: a Promise.resolve().then(sendChunk) microtask is pending
    upstream,          \* stream: the backend body: bytes read so far and its state
    buffer,            \* stream: let buffer (decoded text)
    decoder,           \* stream: TextDecoder's pending bytes (stream: true)
    turns,             \* overlapping POSTs: position and conversation_id of each
    calls,             \* overlapping POSTs: backend calls in flight
    input,             \* Chat: const [input, setInput]
    status,            \* Chat: useChat's status
    conversationId,    \* Chat: const [conversationId, setConversationId]
    sent,              \* Chat: the request bodies sent, in order
    received,          \* Chat: the x-conversation-id values the responses have carried
    pending,           \* Chat: phase of each request in flight
    event,             \* Chat: the event the component handled last
    all_messages,      \* context manager: the whole history, current request included
    messages,          \* context manager: the messages of the current request
    language,          \* context manager: the language hint
    processed,         \* context manager: the messages submitted to the model
    summarized,        \* context manager: inputs of _summarize_conversation calls
    prompt,            \* context manager: the system prompt built
    raised,            \* context manager: the exception raised, if any
    built              \* context manager: which of the two steps have run

routeVars == <<route, pc, reqBody, fetches, backendResponse, response, controller,
               got, assistantMessage, index, isClosed, scheduled, upstream, buffer,
               decoder>>
turnVars == <<turns, calls>>
chatVars == <<input, status, conversationId, sent, received, pending, event>>
contextVars == <<all_messages, messages, language, processed, summarized, prompt,
                 raised, built>>

\* what a single request to a route leaves alone
otherVars == <<turnVars, chatVars, contextVars>>

vars == <<routeVars, turnVars, chatVars, contextVars>>

\* no overlapping requests, no Chat instance, no context manager at work
TurnsIdle == turns = <<>> /\ calls = {}
ChatIdle ==
    /\ input = <<>> /\ status = "ready" /\ conversationId = "null"
    /\ sent = <<>> /\ received = {} /\ pending = <<>> /\ event = "mount"
ContextIdle ==
    /\ all_messages = <<>> /\ messages = <<>> /\ language = "None"
    /\ processed = <<>> /\ summarized = <<>> /\ prompt = <<>>
    /\ raised = "none" /\ built = {}

(* ----------------------------- sequences ------------------------------- *)
Min(a, b) == IF a < b THEN a ELSE b

RECURSIVE Concat(_)
Concat(ss) == IF ss = <<>> THEN <<>> ELSE Head(ss) \o Concat(Tail(ss))

(* ------------- ReadableStreamDefaultController (WHATWG Streams) --------- *)
NoController == [state |-> "none", queue |-> <<>>, log |-> <<>>]
NewController == [state |-> "open", queue |-> <<>>, log |-> <<>>]

\* new ReadableStream({ start }) with no queuing strategy: the default
\* strategy counts chunks and has a high water mark of one; desiredSize is
\* highWaterMark minus the number of queued chunks
highWaterMark == 1

\* ReadableStreamDefaultControllerCanCloseOrEnqueue: enqueue and close throw
\* a TypeError when this is false
CanCloseOrEnqueue(c) == c.state = "open"

\* controller.enqueue(chunk), where it does not throw
CtlEnqueue(c, chunk) ==
    [c EXCEPT !.queue = Append(@, chunk), !.log = Append(@, chunk)]

\* controller.close(), where it does not throw: the stream closes once the
\* queue has drained
CtlClose(c) ==
    [c EXCEPT !.state = IF c.queue = <<>> THEN "closed" ELSE "closeRequested"]

\* controller.error(e): a no-op unless the stream is readable; resets the queue
CtlError(c) ==
    IF c.state \in {"open", "closeRequested"}
    THEN [c EXCEPT !.state = "errored", !.queue = <<>>]
    ELSE c

(* ------------- fallback route: text, JSON and UTF-8 conversions -------- *)
\* UTF-16 code units of an assistant text: a high surrogate, a low surrogate,
\* a plain letter and a double quote (which JSON must escape)
Units == <<"H", "L", "a", "Q">>

\* the assistant texts the backend may return: every length up to MaxLen, in
\* MaxSeed patterns (pattern 1 puts a surrogate pair across the 20/21 boundary)
TextOf(len, seed) == [i \in 1..len |-> Units[((i * seed) % 4) + 1]]
Texts == { TextOf(len, seed) : len \in 0..MaxLen, seed \in 1..MaxSeed }

\* JSON.stringify of a string value (well-formed JSON.stringify): a quote is
\* escaped, a lone surrogate is written as a \uXXXX escape, a surrogate pair
\* and every other unit are written as they are
RECURSIVE JsonStringify(_)
JsonStringify(u) ==
    IF u = <<>> THEN <<>>
    ELSE IF Head(u) = "H" /\ Len(u) >= 2 /\ u[2] = "L"
         THEN <<"H", "L">> \o JsonStringify(Tail(Tail(u)))
    ELSE IF Head(u) = "H" THEN <<"\\", "uH">> \o JsonStringify(Tail(u))
    ELSE IF Head(u) = "L" THEN <<"\\", "uL">> \o JsonStringify(Tail(u))
    ELSE IF Head(u) = "Q" THEN <<"\\", "Q">> \o JsonStringify(Tail(u))
    ELSE <<Head(u)>> \o JsonStringify(Tail(u))

\* TextEncoder.encode: a surrogate pair becomes one four-byte sequence ("P"),
\* a lone surrogate becomes U+FFFD, every other unit is ASCII
RECURSIVE Utf8Encode(_)
Utf8Encode(u) ==
    IF u = <<>> THEN <<>>
    ELSE IF Head(u) = "H" /\ Len(u) >= 2 /\ u[2] = "L"
         THEN <<"P">> \o Utf8Encode(Tail(Tail(u)))
    ELSE IF Head(u) \in {"H", "L"} THEN <<"FFFD">> \o Utf8Encode(Tail(u))
    ELSE <<Head(u)>> \o Utf8Encode(Tail(u))

\* the consumer's UTF-8 decoding of an event payload
RECURSIVE Utf8Decode(_)
Utf8Decode(b) ==
    IF b = <<>> THEN <<>>
    ELSE IF Head(b) = "P" THEN <<"H", "L">> \o Utf8Decode(Tail(b))
    ELSE <<Head(b)>> \o Utf8Decode(Tail(b))

\* the consumer's JSON.parse of a string value
RECURSIVE JsonParse(_)
JsonParse(j) ==
    IF j = <<>> THEN <<>>
    ELSE IF Head(j) = "\\" /\ Len(j) >= 2
         THEN <<CASE j[2] = "uH" -> "H" [] j[2] = "uL" -> "L" [] OTHER -> j[2]>>
              \o JsonParse(Tail(Tail(j)))
    ELSE <<Head(j)>> \o JsonParse(Tail(j))

\* const messageId = `msg_${Date.now()}`
messageId == "msg_t"

\* the three event chunks the fallback route enqueues, as encoded on the wire
startChunk == [type |-> "text-start", id |-> messageId, delta |-> <<>>]
endChunk == [type |-> "text-end", id |-> messageId, delta |-> <<>>]
deltaChunk(chunk) ==
    [type |-> "text-delta", id |-> messageId,
     delta |-> Utf8Encode(JsonStringify(chunk))]

\* a slice that stops one unit short of the chunk size
SliceShort(msg, idx) == SubSeq(msg, idx + 1, Min(idx + chunkSize - 1, Len(msg)))

\* assistantMessage.slice(index, Math.min(index + chunkSize, length))
Slice(msg, idx) == SubSeq(msg, idx + 1, Min(idx + chunkSize, Len(msg)))

\* the delta field a consumer recovers from an enqueued text-delta chunk
DeltaOf(ev) == JsonParse(Utf8Decode(ev.delta))

(* --------- passthrough route: UTF-8 decoding, framing, encoding -------- *)
\* bytes the upstream body may deliver: a letter, a space, a line feed, and
\* the lead and continuation byte of a two-byte character
UpBytes == {"x", "s", "n", "c1", "c2"}

\* decoder.decode(value, { stream: true }) from the pending bytes `pend`:
\* a lead byte waits for its continuation byte (also across reads), a
\* malformed sequence decodes to U+FFFD ("F"), the two-byte character to "E"
RECURSIVE DecodeStream(_, _)
DecodeStream(pend, bytes) ==
    IF bytes = <<>> THEN [text |-> <<>>, pending |-> pend]
    ELSE IF pend # <<>>
         THEN IF Head(bytes) = "c2"
              THEN LET r == DecodeStream(<<>>, Tail(bytes))
                   IN [r EXCEPT !.text = <<"E">> \o @]
              ELSE LET r == DecodeStream(<<>>, bytes)
                   IN [r EXCEPT !.text = <<"F">> \o @]
    ELSE IF Head(bytes) = "c1" THEN DecodeStream(<<"c1">>, Tail(bytes))
    ELSE IF Head(bytes) = "c2"
         THEN LET r == DecodeStream(<<>>, Tail(bytes))
              IN [r EXCEPT !.text = <<"F">> \o @]
    ELSE LET r == DecodeStream(<<>>, Tail(bytes))
         IN [r EXCEPT !.text = <<Head(bytes)>> \o @]

\* new TextEncoder().encode(text)
RECURSIVE Encode(_)
Encode(t) ==
    IF t = <<>> THEN <<>>
    ELSE (CASE Head(t) = "E" -> <<"c1", "c2">>
            [] Head(t) = "F" -> <<"ef", "bf", "bd">>
            [] OTHER -> <<Head(t)>>) \o Encode(Tail(t))

\* index of the first "\n\n" in t, or 0
FirstNN(t) ==
    IF \E i \in 1..(Len(t) - 1) : t[i] = "n" /\ t[i + 1] = "n"
    THEN CHOOSE i \in 1..(Len(t) - 1) :
            /\ t[i] = "n" /\ t[i + 1] = "n"
            /\ \A j \in 1..(i - 1) : ~(t[j] = "n" /\ t[j + 1] = "n")
    ELSE 0

\* buffer.split('\n\n')
RECURSIVE Split(_)
Split(t) ==
    LET i == FirstNN(t)
    IN IF i = 0 THEN <<t>>
       ELSE <<SubSeq(t, 1, i - 1)>> \o Split(SubSeq(t, i + 2, Len(t)))

\* line.trim() is a non-empty string
TrimNonEmpty(line) == \E i \in 1..Len(line) : line[i] \notin {"s", "n"}

\* for (const line of lines) if (line.trim()) controller.enqueue(encode(line + '\n\n'));
\* threw is set when an enqueue throws, which ends the loop
RECURSIVE EnqueueLines(_, _)
EnqueueLines(c, lines) ==
    IF lines = <<>> THEN [controller |-> c, threw |-> FALSE]
    ELSE IF ~TrimNonEmpty(Head(lines)) THEN EnqueueLines(c, Tail(lines))
    ELSE IF ~CanCloseOrEnqueue(c) THEN [controller |-> c, threw |-> TRUE]
    ELSE EnqueueLines(CtlEnqueue(c, Encode(Head(lines) \o <<"n", "n">>)), Tail(lines))

(* ------------------------- POST: shared prefix ------------------------- *)
\* shapes of the inbound request body
ReqBodies == {"notjson", "null", "nomessages", "valid"}

\* JSON bodies of a non-OK backend response
ErrBodies ==
    [kind : {"notjson", "null", "string"}, detail : {"undefined"},
     message : {"undefined"}, content : {<<>>}]
    \cup [kind : {"object"}, detail : {"undefined", "string", "empty", "object"},
          message : {"undefined", "string", "empty"}, content : {<<>>}]

StatusTexts == {<<>>, <<"Bad Gateway">>}

\* the bodies of an OK backend response of the fallback route
OkBodies ==
    [kind : {"notjson", "null", "nomessage", "nocontent"}, detail : {"undefined"},
     message : {"undefined"}, content : {<<>>}]
    \cup [kind : {"content"}, detail : {"undefined"}, message : {"undefined"},
          content : Texts]

\* the body of an OK backend response of the passthrough route: an SSE stream
SseBody == [kind |-> "sse", detail |-> "undefined", message |-> "undefined",
            content |-> <<>>]
NoBody == [kind |-> "none", detail |-> "undefined", message |-> "undefined",
           content |-> <<>>]

NoResponse == [kind |-> "none", status |-> 0, error |-> <<>>, convHeader |-> <<>>]
NoBackendResponse ==
    [ok |-> FALSE, statusText |-> <<>>, body |-> NoBody, contentType |-> "none",
     hasBody |-> FALSE, convId |-> "none"]

\* catch (error: any): new Response(JSON.stringify({ error: error.message ||
\* 'Internal server error' }), { status: 500, ... })
ErrorResponse(message) ==
    [kind |-> "json", status |-> 500,
     error |-> IF message = <<>> THEN <<"Internal server error">> ELSE message,
     convHeader |-> <<>>]

\* the conversation_id the JSON body of a backend response may hold: none
\* (absent or null), the empty string, or an identifier
ConvIds == {"none", "", "conv-a"}

\* the x-conversation-id header a response may carry: none or an identifier
HeaderConvIds == {"none", "conv-a"}

\* a header set without the test `if (conversationId)`
ConversationHeaderAlways(id) == <<id>>

\* if (conversationId) { headers.set('x-conversation-id', conversationId); }
\* the values of the x-conversation-id header of the response
ConversationHeader(id) == IF id \notin {"none", ""} THEN <<id>> ELSE <<>>

StreamResponse ==
    [kind |-> "stream", status |-> 200, error |-> <<>>,
     convHeader |-> ConversationHeader(backendResponse.convId)]

\* the message thrown with error.message tested before error.detail
ErrorMessageMessageFirst(statusText, body) ==
    LET default == <<"Backend error: ">> \o statusText
    IN IF body.kind \in {"notjson", "null"} THEN default
       ELSE IF body.message = "string" THEN <<"message string">>
       ELSE IF body.detail = "string" THEN <<"detail string">>
       ELSE IF body.detail = "empty" THEN <<>>
       ELSE IF body.detail = "object" THEN <<"{detail json}">>
       ELSE IF body.kind = "string" THEN <<"body string">>
       ELSE default

\* the message thrown for a non-OK backend response: json() throws on a
\* body that is no JSON, and error.detail throws on null, both caught
ErrorMessage(statusText, body) ==
    LET default == <<"Backend error: ">> \o statusText
    IN IF body.kind \in {"notjson", "null"} THEN default
       ELSE IF body.detail = "string" THEN <<"detail string">>
       ELSE IF body.detail = "empty" THEN <<>>
       ELSE IF body.detail = "object" THEN <<"{detail json}">>
       ELSE IF body.message = "string" THEN <<"message string">>
       ELSE IF body.kind = "string" THEN <<"body string">>
       ELSE default

Init ==
    /\ route \in {"fallback", "stream"}
    /\ pc = "parse"
    /\ reqBody \in ReqBodies
    /\ fetches = 0
    /\ backendResponse = NoBackendResponse
    /\ response = NoResponse
    /\ controller = NoController
    /\ got = <<>>
    /\ assistantMessage = <<>>
    /\ index = 0
    /\ isClosed = FALSE
    /\ scheduled = FALSE
    /\ upstream = [bytes |-> <<>>, state |-> "none"]
    /\ buffer = <<>>
    /\ decoder = <<>>
    /\ TurnsIdle /\ ChatIdle /\ ContextIdle

fallbackVars == <<assistantMessage, index, isClosed, scheduled>>
streamVars == <<upstream, buffer, decoder>>

\* const body = await req.json(); const { messages, language, conversation_id } = body;
ParseBody ==
    /\ pc = "parse"
    /\ IF reqBody = "notjson"
       THEN /\ response' = ErrorResponse(<<"Unexpected token">>)
            /\ pc' = "done"
       ELSE IF reqBody = "null"
       THEN /\ response' = ErrorResponse(<<"Cannot destructure">>)
            /\ pc' = "done"
       ELSE /\ pc' = "fetch"
            /\ UNCHANGED response
    /\ UNCHANGED <<route, reqBody, fetches, backendResponse, controller, got,
                   fallbackVars, streamVars>>
    /\ UNCHANGED otherVars

\* const backendResponse = await fetch(`${BACKEND_URL}/api/chat/`, ...) throws
FetchThrows ==
    /\ pc = "fetch"
    /\ fetches' = fetches + 1
    /\ response' = ErrorResponse(<<"fetch failed">>)
    /\ pc' = "done"
    /\ UNCHANGED <<route, reqBody, backendResponse, controller, got,
                   fallbackVars, streamVars>>
    /\ UNCHANGED otherVars

\* the bodies of an OK backend response that is no event stream: JSON of
\* any shape, or no JSON at all
NonSseBodies == { b \in OkBodies : b.content = <<>> }

\* the responses the backend may give to the route's request
BackendResponses ==
    [ok : {FALSE}, statusText : StatusTexts, body : ErrBodies,
     contentType : {"none"}, hasBody : {TRUE}, convId : {"none"}]
    \cup (IF route = "fallback"
          THEN [ok : {TRUE}, statusText : {<<"OK">>}, body : OkBodies,
                contentType : {"application/json"}, hasBody : {TRUE},
                convId : ConvIds]
          ELSE [ok : {TRUE}, statusText : {<<"OK">>}, body : {SseBody},
                contentType : {"text/event-stream"},
                hasBody : BOOLEAN, convId : HeaderConvIds]
               \cup [ok : {TRUE}, statusText : {<<"OK">>}, body : NonSseBodies,
                      contentType : {"application/json", "none"},
                      hasBody : BOOLEAN, convId : HeaderConvIds])

\* const backendResponse = await fetch(`${BACKEND_URL}/api/chat/`, ...) resolves
Fetch ==
    /\ pc = "fetch"
    /\ fetches' = fetches + 1
    /\ \E r \in BackendResponses : backendResponse' = r
    /\ pc' = "status"
    /\ UNCHANGED <<route, reqBody, response, controller, got, fallbackVars, streamVars>>
    /\ UNCHANGED otherVars

\* if (!backendResponse.ok) { ... throw new Error(errorMessage); }
BackendNotOk ==
    /\ pc = "status"
    /\ ~backendResponse.ok
    /\ response' = ErrorResponse(ErrorMessage(backendResponse.statusText,
                                              backendResponse.body))
    /\ pc' = "done"
    /\ UNCHANGED <<route, reqBody, fetches, backendResponse, controller, got,
                   fallbackVars, streamVars>>
    /\ UNCHANGED otherVars

(* --------------------------- fallback route ---------------------------- *)
\* sendChunk with the end test index > length instead of index >= length
sendChunkPastEnd(c, msg, idx, closed) ==
    IF closed \/ idx > Len(msg)
    THEN IF ~closed
         THEN IF CanCloseOrEnqueue(c)
              THEN [controller |-> CtlClose(CtlEnqueue(c, endChunk)), index |-> idx,
                    isClosed |-> TRUE, scheduled |-> FALSE]
              ELSE [controller |-> c, index |-> idx, isClosed |-> TRUE,
                    scheduled |-> FALSE]
         ELSE [controller |-> c, index |-> idx, isClosed |-> closed,
               scheduled |-> FALSE]
    ELSE IF CanCloseOrEnqueue(c)
         THEN [controller |-> CtlEnqueue(c, deltaChunk(Slice(msg, idx))),
               index |-> idx + chunkSize, isClosed |-> closed, scheduled |-> TRUE]
         ELSE [controller |-> c, index |-> idx, isClosed |-> TRUE,
               scheduled |-> FALSE]

\* a sendChunk that sends a delta and leaves index where it was
sendChunkNoAdvance(c, msg, idx, closed) ==
    IF closed \/ idx >= Len(msg)
    THEN [controller |-> IF ~closed /\ CanCloseOrEnqueue(c)
                         THEN CtlClose(CtlEnqueue(c, endChunk)) ELSE c,
          index |-> idx, isClosed |-> TRUE, scheduled |-> FALSE]
    ELSE IF CanCloseOrEnqueue(c)
         THEN [controller |-> CtlEnqueue(c, deltaChunk(Slice(msg, idx))),
               index |-> idx, isClosed |-> closed, scheduled |-> TRUE]
         ELSE [controller |-> c, index |-> idx, isClosed |-> TRUE,
               scheduled |-> FALSE]

\* a sendChunk whose catch block leaves isClosed unset and goes on to the
\* next chunk
sendChunkIgnoreClosed(c, msg, idx, closed) ==
    IF closed \/ idx >= Len(msg)
    THEN [controller |-> IF ~closed /\ CanCloseOrEnqueue(c)
                         THEN CtlClose(CtlEnqueue(c, endChunk)) ELSE c,
          index |-> idx, isClosed |-> TRUE, scheduled |-> FALSE]
    ELSE [controller |-> IF CanCloseOrEnqueue(c)
                         THEN CtlEnqueue(c, deltaChunk(Slice(msg, idx))) ELSE c,
          index |-> idx + chunkSize, isClosed |-> closed, scheduled |-> TRUE]

\* const sendChunk = () => { ... }: one call, from the controller c, index idx
\* and isClosed flag closed
sendChunk(c, msg, idx, closed) ==
    IF closed \/ idx >= Len(msg)
    THEN IF ~closed
         THEN IF CanCloseOrEnqueue(c)
              THEN [controller |-> CtlClose(CtlEnqueue(c, endChunk)), index |-> idx,
                    isClosed |-> TRUE, scheduled |-> FALSE]
              ELSE [controller |-> c, index |-> idx, isClosed |-> TRUE,
                    scheduled |-> FALSE]
         ELSE [controller |-> c, index |-> idx, isClosed |-> closed,
               scheduled |-> FALSE]
    ELSE IF CanCloseOrEnqueue(c)
         THEN [controller |-> CtlEnqueue(c, deltaChunk(Slice(msg, idx))),
               index |-> idx + chunkSize, isClosed |-> closed, scheduled |-> TRUE]
         ELSE [controller |-> c, index |-> idx, isClosed |-> TRUE,
               scheduled |-> FALSE]

\* const backendData = await backendResponse.json() throws, or backendData is null
FallbackBadJson ==
    /\ pc = "status"
    /\ route = "fallback"
    /\ backendResponse.ok
    /\ backendResponse.body.kind \in {"notjson", "null"}
    /\ response' = ErrorResponse(IF backendResponse.body.kind = "notjson"
                                 THEN <<"Unexpected token">>
                                 ELSE <<"Cannot read properties of null">>)
    /\ pc' = "done"
    /\ UNCHANGED <<route, reqBody, fetches, backendResponse, controller, got,
                   fallbackVars, streamVars>>
    /\ UNCHANGED otherVars

\* a start callback that closes the stream after text-start, without a
\* text-end, when the assistant text is empty
FallbackRespondEmptyNoEnd ==
    /\ pc = "status"
    /\ route = "fallback"
    /\ backendResponse.ok
    /\ backendResponse.body.kind \notin {"notjson", "null"}
    /\ LET msg == backendResponse.body.content
           started == CtlEnqueue(NewController, startChunk)
           r == IF msg = <<>>
                THEN [controller |-> CtlClose(started), index |-> 0,
                      isClosed |-> TRUE, scheduled |-> FALSE]
                ELSE sendChunk(started, msg, 0, FALSE)
       IN /\ assistantMessage' = msg
          /\ controller' = r.controller
          /\ index' = r.index
          /\ isClosed' = r.isClosed
          /\ scheduled' = r.scheduled
          /\ pc' = IF r.scheduled THEN "send" ELSE "done"
    /\ response' = StreamResponse
    /\ UNCHANGED <<route, reqBody, fetches, backendResponse, got, streamVars>>
    /\ UNCHANGED otherVars

\* a start callback that sends the first chunk before the text-start
FallbackRespondStartLate ==
    /\ pc = "status"
    /\ route = "fallback"
    /\ backendResponse.ok
    /\ backendResponse.body.kind \notin {"notjson", "null"}
    /\ LET msg == backendResponse.body.content
           r == sendChunk(NewController, msg, 0, FALSE)
       IN /\ assistantMessage' = msg
          /\ controller' = IF CanCloseOrEnqueue(r.controller)
                           THEN CtlEnqueue(r.controller, startChunk)
                           ELSE r.controller
          /\ index' = r.index
          /\ isClosed' = r.isClosed
          /\ scheduled' = r.scheduled
          /\ pc' = IF r.scheduled THEN "send" ELSE "done"
    /\ response' = StreamResponse
    /\ UNCHANGED <<route, reqBody, fetches, backendResponse, got, streamVars>>
    /\ UNCHANGED otherVars

\* new ReadableStream({ start(controller) { ... sendChunk(); } }) and
\* return new Response(stream, { headers })
FallbackRespond ==
    /\ pc = "status"
    /\ route = "fallback"
    /\ backendResponse.ok
    /\ backendResponse.body.kind \notin {"notjson", "null"}
    /\ LET msg == backendResponse.body.content
           r == sendChunk(CtlEnqueue(NewController, startChunk), msg, 0, FALSE)
       IN /\ assistantMessage' = msg
          /\ controller' = r.controller
          /\ index' = r.index
          /\ isClosed' = r.isClosed
          /\ scheduled' = r.scheduled
          /\ pc' = IF r.scheduled THEN "send" ELSE "done"
    /\ response' = StreamResponse
    /\ UNCHANGED <<route, reqBody, fetches, backendResponse, got, streamVars>>
    /\ UNCHANGED otherVars

\* Promise.resolve().then(() => { if (!isClosed) { sendChunk(); } })
SendChunkTask ==
    /\ pc = "send"
    /\ scheduled
    /\ LET r == IF ~isClosed
                THEN sendChunk(controller, assistantMessage, index, isClosed)
                ELSE [controller |-> controller, index |-> index,
                      isClosed |-> isClosed, scheduled |-> FALSE]
       IN /\ controller' = r.controller
          /\ index' = r.index
          /\ isClosed' = r.isClosed
          /\ scheduled' = r.scheduled
          /\ pc' = IF r.scheduled THEN "send" ELSE "done"
    /\ UNCHANGED <<route, reqBody, fetches, backendResponse, response, got,
                   assistantMessage, streamVars>>
    /\ UNCHANGED otherVars

(* ------------------------------ consumer ------------------------------- *)
\* the consumer of the Response body reads one chunk
ConsumerRead ==
    /\ response.kind = "stream"
    /\ controller.state \in {"open", "closeRequested"}
    /\ controller.queue # <<>>
    /\ got' = Append(got, Head(controller.queue))
    /\ controller' =
         [controller EXCEPT
            !.queue = Tail(@),
            !.state = IF @ = "closeRequested" /\ Len(controller.queue) = 1
                      THEN "closed" ELSE @]
    /\ UNCHANGED <<route, pc, reqBody, fetches, backendResponse, response,
                   fallbackVars, streamVars>>
    /\ UNCHANGED otherVars

\* the consumer cancels the Response body (the client disconnected): the
\* stream is closed and its queue reset
ConsumerCancel ==
    /\ response.kind = "stream"
    /\ controller.state \in {"open", "closeRequested"}
    /\ controller' = [controller EXCEPT !.state = "cancelled", !.queue = <<>>]
    /\ UNCHANGED <<route, pc, reqBody, fetches, backendResponse, response, got,
                   fallbackVars, streamVars>>
    /\ UNCHANGED otherVars

(* -------------------------- passthrough route -------------------------- *)
\* contentType?.includes('text/event-stream')
IsEventStream(contentType) == contentType = "text/event-stream"

\* await backendResponse.json() resolves: the response has a body and the
\* body is JSON
JsonParses(r) == r.hasBody /\ r.body.kind # "notjson"

\* a route that passes a response of another content type on as a stream
StreamNotSseAsStream ==
    /\ pc = "status"
    /\ route = "stream"
    /\ backendResponse.ok
    /\ ~IsEventStream(backendResponse.contentType)
    /\ response' = StreamResponse
    /\ controller' = CtlClose(NewController)
    /\ pc' = "done"
    /\ UNCHANGED <<route, reqBody, fetches, backendResponse, got,
                   fallbackVars, streamVars>>
    /\ UNCHANGED otherVars

\* const backendData = await backendResponse.json();
\* throw new Error('Expected streaming response but received JSON');
StreamNotSse ==
    /\ pc = "status"
    /\ route = "stream"
    /\ backendResponse.ok
    /\ ~IsEventStream(backendResponse.contentType)
    /\ response' = ErrorResponse(
          IF JsonParses(backendResponse)
          THEN <<"Expected streaming response but received JSON">>
          ELSE <<"Unexpected token">>)
    /\ pc' = "done"
    /\ UNCHANGED <<route, reqBody, fetches, backendResponse, controller, got,
                   fallbackVars, streamVars>>
    /\ UNCHANGED otherVars

\* const reader = backendResponse.body?.getReader();
\* new ReadableStream({ async start(controller) { if (!reader) {...} ... } })
\* up to the first await reader.read(), and return new Response(stream, { headers })
StreamRespond ==
    /\ pc = "status"
    /\ route = "stream"
    /\ backendResponse.ok
    /\ IsEventStream(backendResponse.contentType)
    /\ IF ~backendResponse.hasBody
       THEN /\ controller' = CtlClose(NewController)
            /\ pc' = "done"
            /\ UNCHANGED upstream
       ELSE /\ controller' = NewController
            /\ pc' = "pump"
            /\ upstream' = [upstream EXCEPT !.state = "open"]
    /\ response' = StreamResponse
    /\ UNCHANGED <<route, reqBody, fetches, backendResponse, got, fallbackVars,
                   buffer, decoder>>
    /\ UNCHANGED otherVars

\* a loop turn that decodes every value on its own (no { stream: true }): a
\* lead byte at the end of a read is not kept for the next read
ReadValueNoStream(value) ==
    /\ pc = "pump"
    /\ upstream.state = "open"
    /\ Len(upstream.bytes) + Len(value) <= MaxUp
    /\ upstream' = [upstream EXCEPT !.bytes = @ \o value]
    /\ LET d == DecodeStream(<<>>, value)
           text == d.text \o (IF d.pending # <<>> THEN <<"F">> ELSE <<>>)
           lines == Split(buffer \o text)
           r == EnqueueLines(controller, SubSeq(lines, 1, Len(lines) - 1))
       IN /\ decoder' = <<>>
          /\ buffer' = lines[Len(lines)]
          /\ IF r.threw
             THEN /\ controller' = CtlError(r.controller)
                  /\ pc' = "done"
             ELSE /\ controller' = r.controller
                  /\ pc' = "pump"
    /\ UNCHANGED <<route, reqBody, fetches, backendResponse, response, got,
                   fallbackVars>>
    /\ UNCHANGED otherVars

\* a loop turn that forgets lines.pop(): the trailing partial line is sent too
ReadValueNoPop(value) ==
    /\ pc = "pump"
    /\ upstream.state = "open"
    /\ Len(upstream.bytes) + Len(value) <= MaxUp
    /\ upstream' = [upstream EXCEPT !.bytes = @ \o value]
    /\ LET d == DecodeStream(decoder, value)
           lines == Split(buffer \o d.text)
           r == EnqueueLines(controller, lines)
       IN /\ decoder' = d.pending
          /\ buffer' = lines[Len(lines)]
          /\ IF r.threw
             THEN /\ controller' = CtlError(r.controller)
                  /\ pc' = "done"
             ELSE /\ controller' = r.controller
                  /\ pc' = "pump"
    /\ UNCHANGED <<route, reqBody, fetches, backendResponse, response, got,
                   fallbackVars>>
    /\ UNCHANGED otherVars

\* one turn of the while loop in which reader.read() resolves with a value:
\* decode, split, keep the last piece, enqueue the complete lines; an enqueue
\* that throws is caught and answered with controller.error(error)
ReadValue(value) ==
    /\ pc = "pump"
    /\ upstream.state = "open"
    /\ Len(upstream.bytes) + Len(value) <= MaxUp
    /\ upstream' = [upstream EXCEPT !.bytes = @ \o value]
    /\ LET d == DecodeStream(decoder, value)
           lines == Split(buffer \o d.text)
           r == EnqueueLines(controller, SubSeq(lines, 1, Len(lines) - 1))
       IN /\ decoder' = d.pending
          /\ buffer' = lines[Len(lines)]
          /\ IF r.threw
             THEN /\ controller' = CtlError(r.controller)
                  /\ pc' = "done"
             ELSE /\ controller' = r.controller
                  /\ pc' = "pump"
    /\ UNCHANGED <<route, reqBody, fetches, backendResponse, response, got,
                   fallbackVars>>
    /\ UNCHANGED otherVars

\* a done branch that closes the stream without flushing the buffer
ReadDoneNoFlush ==
    /\ pc = "pump"
    /\ upstream.state = "open"
    /\ upstream' = [upstream EXCEPT !.state = "done"]
    /\ IF CanCloseOrEnqueue(controller)
       THEN controller' = CtlClose(controller)
       ELSE controller' = CtlError(controller)
    /\ pc' = "done"
    /\ UNCHANGED <<route, reqBody, fetches, backendResponse, response, got,
                   fallbackVars, buffer, decoder>>
    /\ UNCHANGED otherVars

\* reader.read() resolves with done: flush the buffer, close the stream
ReadDone ==
    /\ pc = "pump"
    /\ upstream.state = "open"
    /\ upstream' = [upstream EXCEPT !.state = "done"]
    /\ IF buffer # <<>>
       THEN IF CanCloseOrEnqueue(controller)
            THEN controller' = CtlClose(CtlEnqueue(controller, Encode(buffer)))
            ELSE controller' = CtlError(controller)
       ELSE IF CanCloseOrEnqueue(controller)
            THEN controller' = CtlClose(controller)
            ELSE controller' = CtlError(controller)
    /\ pc' = "done"
    /\ UNCHANGED <<route, reqBody, fetches, backendResponse, response, got,
                   fallbackVars, buffer, decoder>>
    /\ UNCHANGED otherVars

\* a catch block that closes the stream instead of erroring it
ReadThrowsCloses ==
    /\ pc = "pump"
    /\ upstream.state = "open"
    /\ upstream' = [upstream EXCEPT !.state = "failed"]
    /\ controller' = IF CanCloseOrEnqueue(controller)
                     THEN CtlClose(controller) ELSE controller
    /\ pc' = "done"
    /\ UNCHANGED <<route, reqBody, fetches, backendResponse, response, got,
                   fallbackVars, buffer, decoder>>
    /\ UNCHANGED otherVars

\* reader.read() rejects: console.error(...); controller.error(error)
ReadThrows ==
    /\ pc = "pump"
    /\ upstream.state = "open"
    /\ upstream' = [upstream EXCEPT !.state = "failed"]
    /\ controller' = CtlError(controller)
    /\ pc' = "done"
    /\ UNCHANGED <<route, reqBody, fetches, backendResponse, response, got,
                   fallbackVars, buffer, decoder>>
    /\ UNCHANGED otherVars

\* the values one reader.read() may resolve with: any non-empty run of bytes
RECURSIVE ByteSeqs(_)
ByteSeqs(n) ==
    IF n = 0 THEN {<<>>}
    ELSE LET shorter == ByteSeqs(n - 1)
         IN shorter \cup { Append(q, b) : q \in { p \in shorter : Len(p) = n - 1 },
                                          b \in UpBytes }

\* the values the next reader.read() may resolve with, within the bound
ReadValues ==
    IF pc = "pump" /\ upstream.state = "open"
    THEN ByteSeqs(MaxUp - Len(upstream.bytes)) \ {<<>>}
    ELSE {}

\* const { done, value } = await reader.read() with done false
Pump == \E value \in ReadValues : ReadValue(value)

Next ==
    \/ ParseBody
    \/ FetchThrows
    \/ Fetch
    \/ BackendNotOk
    \/ FallbackBadJson
    \/ FallbackRespond
    \/ SendChunkTask
    \/ StreamNotSse
    \/ StreamRespond
    \/ Pump
    \/ ReadDone
    \/ ReadThrows
    \/ ConsumerRead
    \/ ConsumerCancel

Spec == Init /\ [][Next]_vars

(* =============================== claims ================================ *)
IsDelta(ev) == ev.type = "text-delta"
IsStart(ev) == ev.type = "text-start"
IsTerminator(ev) == ev.type \in {"text-end", "error"}

\* the text-delta events enqueued so far, in the order of their enqueue
Deltas == SelectSeq(controller.log, IsDelta)

\* the delta fields of a sequence of text-delta events
DeltaFields(evs) == [i \in 1..Len(evs) |-> DeltaOf(evs[i])]

\* the fallback route has opened its event stream
FallbackStream == route = "fallback" /\ response.kind = "stream"

\* the fallback route has run to its end and the consumer has not closed the stream
FallbackComplete ==
    FallbackStream /\ pc = "done" /\ controller.state \in {"closeRequested", "closed"}

\* C1: in the fallback route the delta fields of the text-delta events, in the
\* order of their enqueue, concatenate to the text delivered so far at every
\* moment, and to the whole assistant text once the route has finished, when
\* the consumer does not close the stream.
C1_RoundTrip ==
    FallbackStream =>
      /\ Concat(DeltaFields(Deltas)) =
           SubSeq(assistantMessage, 1, Min(index, Len(assistantMessage)))
      /\ FallbackComplete => Concat(DeltaFields(Deltas)) = assistantMessage

\* a 45-unit text whose surrogate pair straddles the first chunk boundary has
\* been sent in full
C1_Witness ==
    /\ FallbackComplete
    /\ Len(assistantMessage) = 45
    /\ assistantMessage[20] = "H" /\ assistantMessage[21] = "L"
    /\ Len(Deltas) = 3

\* number of events of the log that satisfy Test
Count(Test(_)) == Len(SelectSeq(controller.log, Test))

\* C2 (as claimed): every run of the fallback route, also one in which an
\* enqueue fails because the controller was closed, ends with exactly one
\* text-start and exactly one terminating event in the log, the text-start
\* first and the terminator last.
C2_Claimed ==
    (FallbackStream /\ pc = "done") =>
      /\ Count(IsStart) = 1
      /\ Count(IsTerminator) = 1
      /\ IsStart(controller.log[1])
      /\ IsTerminator(controller.log[Len(controller.log)])

\* C2 (amended): the fallback route enqueues exactly one text-start, before
\* every text-delta; it enqueues at most one terminating event and nothing
\* after it; a run the consumer does not close ends with exactly one text-end,
\* and a run in which an enqueue failed on the closed controller has enqueued
\* no terminating event at all.
C2_Ordering ==
    FallbackStream =>
      /\ Count(IsStart) = 1
      /\ IsStart(controller.log[1])
      /\ Count(IsTerminator) <= 1
      /\ \A i \in 1..Len(controller.log) :
            IsTerminator(controller.log[i]) => i = Len(controller.log)
      /\ FallbackComplete =>
            /\ Count(IsTerminator) = 1
            /\ controller.log[Len(controller.log)].type = "text-end"
      /\ (pc = "done" /\ controller.state = "cancelled"
            /\ index < Len(assistantMessage)) => Count(IsTerminator) = 0

\* the consumer closed the stream after two of three deltas: the next enqueue
\* failed and the run ended without a terminating event
C2_Witness ==
    /\ FallbackStream /\ pc = "done" /\ isClosed
    /\ controller.state = "cancelled"
    /\ Len(assistantMessage) = 45
    /\ Len(Deltas) = 2
    /\ Count(IsTerminator) = 0

\* number of text-delta events a text of n units takes: ceil(n / chunkSize)
Chunks(n) == (n + chunkSize - 1) \div chunkSize

\* C3: for a text of L > 0 units the fallback route enqueues text-start,
\* then exactly ceil(L/20) text-delta events, each of 20 units but the last,
\* which has the remaining L - 20*(ceil(L/20)-1) units (1..20), then text-end.
C3_ChunkLengths ==
    (FallbackComplete /\ Len(assistantMessage) > 0) =>
      LET L == Len(assistantMessage)
          n == Chunks(L)
          f == DeltaFields(Deltas)
      IN /\ Len(f) = n
         /\ \A i \in 1..(n - 1) : Len(f[i]) = chunkSize
         /\ Len(f[n]) = L - chunkSize * (n - 1)
         /\ Len(f[n]) \in 1..chunkSize
         /\ Len(controller.log) = n + 2
         /\ \A i \in 2..(n + 1) : IsDelta(controller.log[i])
         /\ controller.log[n + 2].type = "text-end"

\* the scenario of the specification: 45 units are sent as 20, 20, 5, then text-end
C3_Witness ==
    /\ FallbackComplete
    /\ Len(assistantMessage) = 45
    /\ [i \in 1..Len(Deltas) |-> Len(DeltaOf(Deltas[i]))] = <<20, 20, 5>>
    /\ controller.log[Len(controller.log)].type = "text-end"

(* ----------------------- passthrough route claims ---------------------- *)
\* the passthrough route has opened its event stream
PassStream == route = "stream" /\ response.kind = "stream"

\* positions at which a chunk holds two adjacent line feeds
DoubleNewlines(chunk) ==
    { i \in 1..(Len(chunk) - 1) : chunk[i] = "n" /\ chunk[i + 1] = "n" }

\* one complete framed unit: its only double newline is its last two bytes
Framed(chunk) == DoubleNewlines(chunk) = {Len(chunk) - 1}

\* the whole upstream text received so far, decoded in one piece
Received == DecodeStream(<<>>, upstream.bytes).text

\* what follows the last double newline of a text, delimiters being matched
\* from the left
RECURSIVE Partial(_)
Partial(t) ==
    IF \E i \in 1..(Len(t) - 1) : t[i] = "n" /\ t[i + 1] = "n"
    THEN Partial(SubSeq(t, FirstNN(t) + 2, Len(t)))
    ELSE t

\* C4: while the upstream is open, every chunk the passthrough route has
\* enqueued is one complete framed unit (no interior double newline, one
\* terminating double newline), and the trailing partial unit of the text
\* received so far is held in the buffer, not enqueued.
C4_FramedUnits ==
    (PassStream /\ upstream.state = "open") =>
      /\ \A i \in 1..Len(controller.log) : Framed(controller.log[i])
      /\ DoubleNewlines(buffer) = {}
      /\ pc = "pump" => buffer = Partial(Received)

\* a unit and the beginning of the next have been received: the unit was
\* enqueued, the partial one is held
C4_Witness ==
    /\ PassStream /\ upstream.state = "open" /\ pc = "pump"
    /\ upstream.bytes = <<"x", "n", "n", "c1", "c2">>
    /\ controller.log = <<(<<"x", "n", "n">>)>>
    /\ buffer = <<"E">>

\* the step in which reader.read() reports done
UpstreamCloses == upstream.state = "open" /\ upstream'.state = "done"

\* C5 (as claimed): whenever the upstream has closed normally with a non-empty
\* partial unit in the buffer, that unit, exactly as held, is the last chunk
\* enqueued.
C5_Claimed ==
    (PassStream /\ upstream.state = "done" /\ buffer # <<>>) =>
      /\ controller.log # <<>>
      /\ controller.log[Len(controller.log)] = Encode(buffer)

\* C5 (amended): when the upstream closes normally while the buffer holds a
\* non-empty partial unit and the consumer has not cancelled the output
\* stream, the buffer is enqueued exactly as held, the stream is then closed,
\* and nothing is enqueued afterwards; after a cancel the flush fails and
\* nothing is enqueued.
C5_Flush ==
    [][ /\ (PassStream /\ UpstreamCloses /\ buffer # <<>>) =>
             IF controller.state = "cancelled"
             THEN controller' = controller
             ELSE /\ controller'.log = Append(controller.log, Encode(buffer))
                  /\ controller'.queue = Append(controller.queue, Encode(buffer))
                  /\ controller'.state = "closeRequested"
        /\ (PassStream /\ upstream.state = "done") =>
             controller'.log = controller.log ]_vars

\* the upstream closed on a held partial unit, which was flushed as the last
\* chunk of a closing stream
C5_Witness ==
    /\ PassStream /\ upstream.state = "done"
    /\ upstream.bytes = <<"x", "n", "n", "x", "s">>
    /\ buffer = <<"x", "s">>
    /\ controller.log = <<(<<"x", "n", "n">>), (<<"x", "s">>)>>
    /\ controller.state \in {"closeRequested", "closed"}

\* the upstream bytes are well-formed UTF-8: nothing decodes to U+FFFD and no
\* sequence is left unfinished
WellFormed(bytes) ==
    LET d == DecodeStream(<<>>, bytes)
    IN d.pending = <<>> /\ \A i \in 1..Len(d.text) : d.text[i] # "F"

\* C6 (as claimed): once the upstream has closed normally and the consumer has
\* not cancelled, the chunks enqueued downstream concatenate to exactly the
\* bytes read from upstream (stated here for well-formed UTF-8 upstreams, the
\* only ones a backend SSE stream produces).
C6_Claimed ==
    (PassStream /\ reqBody = "valid" /\ upstream.state = "done"
       /\ WellFormed(upstream.bytes) /\ controller.state \in {"closeRequested", "closed"}) =>
      Concat(controller.log) = upstream.bytes

\* the step in which reader.read() rejects
UpstreamFails == upstream.state = "open" /\ upstream'.state = "failed"

\* C7 (as claimed): when reading from the upstream fails after at least one
\* unit has been forwarded, the route enqueues a terminating event before the
\* stream ends.
C7_Claimed ==
    [][ (PassStream /\ UpstreamFails /\ controller.log # <<>>
           /\ controller.state = "open") =>
          Len(controller'.log) = Len(controller.log) + 1 ]_vars

\* C8 (as claimed): after a mid-stream upstream failure every unit enqueued
\* before the failure has been read by the consumer or is still in the queue
\* for it to read.
C8_Claimed ==
    (PassStream /\ upstream.state = "failed" /\ controller.state # "cancelled") =>
      got \o controller.queue = controller.log

(* ---------------------- claims about the POST prefix ------------------- *)
\* the backend call failed before any text was produced: fetch threw, or the
\* backend answered with a non-OK status
BackendFailed ==
    reqBody = "valid" /\ pc = "done" /\ fetches = 1 /\ ~backendResponse.ok

\* C9 (as claimed): when the backend call fails before any text is produced,
\* the events delivered to the client are exactly one error event, with no
\* text-start and no text-delta.
C9_Claimed ==
    BackendFailed =>
      /\ Len(controller.log) = 1
      /\ controller.log[1].type = "error"

\* C10 (as claimed): an inbound body that is not valid JSON, or that has no
\* messages list, is rejected before any call to the backend: no fetch is
\* issued, no event stream is opened, and a direct error response is returned.
C10_Claimed ==
    reqBody \in {"notjson", "null", "nomessages"} =>
      /\ fetches = 0
      /\ controller.state = "none"
      /\ response.kind # "stream"
      /\ pc = "done" => response.kind = "json"

(* ------------------- conversation identifier (both routes) ------------- *)
\* the backend supplied a conversation identifier (an empty one is none)
Supplied(id) == id \notin {"none", ""}

\* the units of the event bodies enqueued so far
BodyUnits ==
    IF route = "fallback"
    THEN UNION { {controller.log[i].id}
                   \cup { controller.log[i].delta[j] :
                            j \in 1..Len(controller.log[i].delta) } :
                 i \in 1..Len(controller.log) }
    ELSE UNION { { controller.log[i][j] : j \in 1..Len(controller.log[i]) } :
                 i \in 1..Len(controller.log) }

\* C11: in both routes, whenever an event stream has been opened, the
\* x-conversation-id header of the response holds the backend's conversation
\* identifier once and unchanged when the backend supplied one, the header is
\* absent when it supplied none, and no event body enqueued holds the
\* identifier.
C11_HeaderOnly ==
    response.kind = "stream" =>
      LET id == backendResponse.convId
      IN /\ Supplied(id) => response.convHeader = <<id>>
         /\ ~Supplied(id) => response.convHeader = <<>>
         /\ id \notin BodyUnits

\* both cases after events were enqueued: an identifier forwarded in the
\* header, and no header for a backend that supplied none
C11_Witness ==
    /\ response.kind = "stream"
    /\ Len(controller.log) >= 2
    /\ \/ backendResponse.convId = "conv-a" /\ response.convHeader = <<"conv-a">>
       \/ backendResponse.convId = "none" /\ response.convHeader = <<>>

(* -------------------- fallback route: client disconnect ---------------- *)
\* C12: in the fallback route, once the client has closed the stream, the
\* next sendChunk finds its enqueue failing and sets isClosed; from then on
\* nothing more is enqueued (no text-delta, no text-end), no sendChunk is
\* scheduled again, and the stream is never errored by an exception escaping
\* from its start callback.
C12_Abandon ==
    [][(FallbackStream /\ controller.state = "cancelled") =>
         /\ controller' = controller
         /\ isClosed' /\ ~scheduled'
         /\ pc' = "done"]_vars

\* the client closed the stream after two of three text-delta events: the
\* third was never enqueued, nor a text-end, and nothing is scheduled
C12_Witness ==
    /\ FallbackStream /\ controller.state = "cancelled"
    /\ Len(assistantMessage) = 45
    /\ Len(Deltas) = 2 /\ Len(controller.log) = 3
    /\ isClosed /\ ~scheduled /\ pc = "done"

(* ------------------ passthrough route: client disconnect --------------- *)
\* the client has disconnected from the passthrough route's event stream
Disconnected == PassStream /\ controller.state = "cancelled"

\* C13 (as claimed): in the passthrough route, after the client has
\* disconnected, the route never ends with the upstream reader left open:
\* when the route has stopped, the upstream was read to its end or has
\* failed, or its reader was cancelled.
C13_Claimed ==
    (reqBody = "valid" /\ Disconnected /\ pc = "done") => upstream.state # "open"

(* --------------------- downstream queue (both routes) ------------------ *)
\* the chunks enqueued on the output stream and not yet read by the consumer
Unread == Len(controller.queue)

\* C14 (as claimed): in both routes, while the output stream's queue is full
\* (it holds highWaterMark unread chunks or more) the route enqueues nothing
\* further, so that the number of unread chunks stays bounded when the
\* consumer stalls.
C14_Claimed ==
    [][(reqBody = "valid" /\ response.kind = "stream" /\ Unread >= highWaterMark)
         => Len(controller'.queue) <= Unread]_vars

(* ====================== overlapping POST requests ====================== *)
\* no single request under way on either route
RouteIdle ==
    /\ route = "stream" /\ pc = "done" /\ reqBody = "valid" /\ fetches = 0
    /\ backendResponse = NoBackendResponse /\ response = NoResponse
    /\ controller = NoController /\ got = <<>>
    /\ assistantMessage = <<>> /\ index = 0 /\ isClosed = FALSE /\ scheduled = FALSE
    /\ upstream = [bytes |-> <<>>, state |-> "none"]
    /\ buffer = <<>> /\ decoder = <<>>

\* the requests that may overlap, and the conversation_id a request body may
\* carry ("none": absent or empty, sent on as undefined)
Requests == 1..MaxRequests
RequestConvIds == {"none", "conv-a", "conv-b"}

InitTurns ==
    /\ RouteIdle /\ ChatIdle /\ ContextIdle
    /\ turns = [r \in Requests |-> [pc |-> "idle", conversation_id |-> "none"]]
    /\ calls = {}

\* export async function POST(req): a request arrives and POST is invoked
TurnArrive(r) ==
    /\ turns[r].pc = "idle"
    /\ \E id \in RequestConvIds :
         turns' = [turns EXCEPT ![r] = [pc |-> "parse", conversation_id |-> id]]
    /\ UNCHANGED <<calls, routeVars, chatVars, contextVars>>

\* const body = await req.json(); ... fetch(`${BACKEND_URL}/api/chat/`, ...):
\* the backend call is issued with the request's conversation_id; nothing
\* is looked up, locked or awaited before it
TurnFetch(r) ==
    /\ turns[r].pc = "parse"
    /\ turns' = [turns EXCEPT ![r].pc = "fetch"]
    /\ calls' = calls \cup {[request |-> r,
                             conversation_id |-> turns[r].conversation_id]}
    /\ UNCHANGED <<routeVars, chatVars, contextVars>>

\* await fetch(...) resolves and POST returns its Response; the backend goes
\* on producing the body
TurnRespond(r) ==
    /\ turns[r].pc = "fetch"
    /\ turns' = [turns EXCEPT ![r].pc = "stream"]
    /\ UNCHANGED <<calls, routeVars, chatVars, contextVars>>

\* the backend's body ends (read reports done): the call is over
TurnFinish(r) ==
    /\ turns[r].pc = "stream"
    /\ turns' = [turns EXCEPT ![r].pc = "done"]
    /\ calls' = { c \in calls : c.request # r }
    /\ UNCHANGED <<routeVars, chatVars, contextVars>>

NextTurns ==
    \/ \E r \in Requests : TurnArrive(r)
    \/ \E r \in Requests : TurnFetch(r)
    \/ \E r \in Requests : TurnRespond(r)
    \/ \E r \in Requests : TurnFinish(r)

SpecTurns == InitTurns /\ [][NextTurns]_vars

\* C15 (as claimed): the route never has two backend calls in flight at once
\* for the same conversation id; a second request for a conversation whose
\* turn is still running is queued or rejected as Busy.
C15_Claimed ==
    \A c1, c2 \in calls :
        (c1.request # c2.request /\ c1.conversation_id # "none")
            => c1.conversation_id # c2.conversation_id

(* ============================ Chat component =========================== *)
\* what the textarea may hold: every text of spaces and letters up to MaxInput
RECURSIVE InputTexts(_)
InputTexts(n) ==
    IF n = 0 THEN {<<>>}
    ELSE LET shorter == InputTexts(n - 1)
         IN shorter \cup { Append(t, u) : t \in { q \in shorter : Len(q) = n - 1 },
                                          u \in {" ", "h"} }

\* String.prototype.trim
RECURSIVE Trim(_)
Trim(t) ==
    IF t = <<>> THEN <<>>
    ELSE IF Head(t) = " " THEN Trim(Tail(t))
    ELSE IF t[Len(t)] = " " THEN Trim(SubSeq(t, 1, Len(t) - 1))
    ELSE t

\* const isLoading = status === 'streaming';
isLoading == status = "streaming"

\* body: { language: ..., conversation_id: conversationId || undefined }
BodyConversationId ==
    IF conversationId \in {"null", ""} THEN "undefined" ELSE conversationId

\* the component as mounted
InitChat == RouteIdle /\ TurnsIdle /\ ContextIdle /\ ChatIdle

\* handleInputChange: setInput(e.target.value); the textarea is disabled
\* while isLoading
handleInputChange(value) ==
    /\ ~isLoading
    /\ value # input
    /\ input' = value
    /\ event' = "change"
    /\ UNCHANGED <<status, conversationId, sent, received, pending,
                   routeVars, turnVars, contextVars>>

\* handleSubmit: if (input.trim() && !isLoading) { sendMessage({ role: 'user',
\* content: input.trim() }); setInput('') }. sendMessage posts the transport's
\* body and sets the status to submitted.
handleSubmit ==
    IF Trim(input) # <<>> /\ ~isLoading
    THEN /\ Len(sent) < MaxSends
         /\ sent' = Append(sent, [content |-> Trim(input),
                                  conversation_id |-> BodyConversationId])
         /\ pending' = Append(pending, "submitted")
         /\ status' = "submitted"
         /\ input' = <<>>
    ELSE UNCHANGED <<input, status, sent, pending>>

\* <form onSubmit={handleSubmit}>: the submit button or any other submission
\* of the form
onSubmit ==
    /\ handleSubmit
    /\ event' = "submit"
    /\ UNCHANGED <<conversationId, received, routeVars, turnVars, contextVars>>

\* the keys of the model, and the name of a key event
Keys == {"Enter", "h"}
KeyEvent(key, shiftKey) == IF shiftKey THEN "Shift+" \o key ELSE key

\* a key handler that takes Enter for a submission whatever the Shift key
onKeyDownAnyEnter(key, shiftKey) ==
    /\ ~isLoading
    /\ IF key = "Enter"
       THEN IF ~isLoading /\ Trim(input) # <<>>
            THEN handleSubmit
            ELSE UNCHANGED <<input, status, sent, pending>>
       ELSE UNCHANGED <<input, status, sent, pending>>
    /\ event' = KeyEvent(key, shiftKey)
    /\ UNCHANGED <<conversationId, received, routeVars, turnVars, contextVars>>

\* onKeyDown of the textarea (disabled while isLoading): Enter without Shift
\* is prevented from inserting a line break and submits
onKeyDown(key, shiftKey) ==
    /\ ~isLoading
    /\ IF key = "Enter" /\ ~shiftKey
       THEN IF ~isLoading /\ Trim(input) # <<>>
            THEN handleSubmit
            ELSE UNCHANGED <<input, status, sent, pending>>
       ELSE UNCHANGED <<input, status, sent, pending>>
    /\ event' = KeyEvent(key, shiftKey)
    /\ UNCHANGED <<conversationId, received, routeVars, turnVars, contextVars>>

\* the response to request i arrives and its first event is read: the status
\* becomes streaming. The component registers no onResponse callback, so the
\* response's x-conversation-id header is read by nothing.
ResponseStarts(i, header) ==
    /\ pending[i] = "submitted"
    /\ pending' = [pending EXCEPT ![i] = "streaming"]
    /\ received' = received \cup {header}
    /\ status' = "streaming"
    /\ event' = "response"
    /\ UNCHANGED <<input, conversationId, sent, routeVars, turnVars, contextVars>>

\* the response to request i has been read to its end
ResponseFinishes(i) ==
    /\ pending[i] = "streaming"
    /\ pending' = [pending EXCEPT ![i] = "over"]
    /\ status' = "ready"
    /\ event' = "response"
    /\ UNCHANGED <<input, conversationId, sent, received, routeVars, turnVars,
                   contextVars>>

\* request i fails (onError): the status becomes error
ResponseFails(i) ==
    /\ pending[i] \in {"submitted", "streaming"}
    /\ pending' = [pending EXCEPT ![i] = "over"]
    /\ status' = "error"
    /\ event' = "response"
    /\ UNCHANGED <<input, conversationId, sent, received, routeVars, turnVars,
                   contextVars>>

NextChat ==
    \/ \E value \in InputTexts(MaxInput) : handleInputChange(value)
    \/ onSubmit
    \/ \E key \in Keys : \E shiftKey \in BOOLEAN : onKeyDown(key, shiftKey)
    \/ \E i \in DOMAIN pending : \E header \in HeaderConvIds : ResponseStarts(i, header)
    \/ \E i \in DOMAIN pending : ResponseFinishes(i)
    \/ \E i \in DOMAIN pending : ResponseFails(i)

SpecChat == InitChat /\ [][NextChat]_vars

\* the conversation identifiers the responses received so far have carried
SuppliedIds == { id \in received : Supplied(id) }

\* C16 (as claimed): in the Chat component built on DefaultChatTransport, once
\* a response carrying an x-conversation-id header has been received, every
\* message sent afterwards carries that identifier as conversation_id in its
\* request body.
C16_Claimed ==
    [][(Len(sent') > Len(sent) /\ SuppliedIds # {})
         => sent'[Len(sent')].conversation_id \in SuppliedIds]_vars

(* ============ documented context management (context_manager.py) ======= *)
\* SUMMARIZATION_THRESHOLD = 20  # messages
SUMMARIZATION_THRESHOLD == 20

\* message i of a history of n messages; the last one is the user's
Message(i, n) ==
    [role |-> IF (n - i) % 2 = 0 THEN "user" ELSE "assistant", content |-> <<i>>]
History(n) == [i \in 1..n |-> Message(i, n)]

\* a Python slice bound i on a list of length len: negative counts from the end
PyBound(i, len) == IF i < 0 THEN (IF len + i < 0 THEN 0 ELSE len + i) ELSE Min(i, len)

\* list[:stop] and list[start:]
PySliceTo(list, stop) == SubSeq(list, 1, PyBound(stop, Len(list)))
PySliceFrom(list, start) == SubSeq(list, PyBound(start, Len(list)) + 1, Len(list))

\* a threshold test that already summarizes at the threshold
NeedsSummaryAtThreshold(all) == Len(all) >= SUMMARIZATION_THRESHOLD

\* if len(all_messages) > settings.SUMMARIZATION_THRESHOLD:
NeedsSummary(all) == Len(all) > SUMMARIZATION_THRESHOLD

\* recent messages taken from the head of the history
RecentMessagesHead(all) == PySliceTo(all, SUMMARIZATION_THRESHOLD)

\* recent_messages = all_messages[-settings.SUMMARIZATION_THRESHOLD:]
RecentMessages(all) == PySliceFrom(all, 0 - SUMMARIZATION_THRESHOLD)

\* messages=all_messages[:-len(messages)]
SummaryInput(all, current) == PySliceTo(all, 0 - Len(current))

\* {"role": "system", "content": f"Previous conversation summary: {summary}"}
\* where the summary is the model's text for the messages it was given
\* (0 stands for the fixed prefix)
SummaryMessage(summaryInput) ==
    [role |-> "system",
     content |-> <<0>> \o Concat([i \in 1..Len(summaryInput) |-> summaryInput[i].content])]

\* the language hints a request may carry: absent, empty, two keys of the
\* table and a hint that is no key
Languages == {"None", "", "python", "typescript", "cobol"}

\* LANGUAGE_PROMPTS = { "python": ..., "typescript": ..., }
LANGUAGE_PROMPTS ==
    [l \in {"python", "typescript"} |->
       IF l = "python" THEN "You are working with Python code."
       ELSE "You are working with TypeScript code."]

\* the histories and current requests the context manager may be given: the
\* current request's messages are the last ones of the history
InitContext ==
    /\ RouteIdle /\ TurnsIdle /\ ChatIdle
    /\ \E n \in 0..MaxHistory :
         /\ all_messages = History(n)
         /\ \E k \in (IF n = 0 THEN {0} ELSE 1..n) :
              messages = SubSeq(History(n), n - k + 1, n)
    /\ language \in Languages
    /\ processed = <<>> /\ summarized = <<>> /\ prompt = <<>>
    /\ raised = "none" /\ built = {}

\* the branch taken when the history is longer than the threshold
ProcessSummarize ==
    /\ "context" \notin built
    /\ NeedsSummary(all_messages)
    /\ LET summaryInput == SummaryInput(all_messages, messages)
       IN /\ summarized' = Append(summarized, summaryInput)
          /\ processed' = <<SummaryMessage(summaryInput)>> \o RecentMessages(all_messages)
    /\ built' = built \cup {"context"}
    /\ UNCHANGED <<all_messages, messages, language, prompt, raised,
                   routeVars, turnVars, chatVars>>

\* the history is not longer than the threshold: the recent messages (the
\* last 20) are the whole history, and nothing is summarized
ProcessKeep ==
    /\ "context" \notin built
    /\ ~NeedsSummary(all_messages)
    /\ processed' = all_messages
    /\ built' = built \cup {"context"}
    /\ UNCHANGED <<all_messages, messages, language, summarized, prompt, raised,
                   routeVars, turnVars, chatVars>>

\* prompt = BASE_SYSTEM_PROMPT
\* if language: prompt += f"\n\n{LANGUAGE_PROMPTS[language]}"
\* (a dict lookup of a missing key raises KeyError)
BuildPrompt ==
    /\ "prompt" \notin built
    /\ IF language \in {"None", ""}
       THEN prompt' = <<"BASE_SYSTEM_PROMPT">> /\ UNCHANGED raised
       ELSE IF language \in DOMAIN LANGUAGE_PROMPTS
       THEN /\ prompt' = <<"BASE_SYSTEM_PROMPT", "\n\n", LANGUAGE_PROMPTS[language]>>
            /\ UNCHANGED raised
       ELSE /\ prompt' = <<"BASE_SYSTEM_PROMPT">>
            /\ raised' = "KeyError"
    /\ built' = built \cup {"prompt"}
    /\ UNCHANGED <<all_messages, messages, language, processed, summarized,
                   routeVars, turnVars, chatVars>>

NextContext ==
    \/ ProcessSummarize
    \/ ProcessKeep
    \/ BuildPrompt

SpecContext == InitContext /\ [][NextContext]_vars

(* ------------------------ context management claims -------------------- *)
\* the context manager has produced the submission set
Compacted == "context" \in built

IsSummary(m) == m.role = "system" /\ Len(m.content) >= 1 /\ m.content[1] = 0

\* C17: for every history of at most SUMMARIZATION_THRESHOLD (20) messages
\* the submission set is the whole history, verbatim and in order, it holds no
\* summary message, and no summarization call was made.
C17_Verbatim ==
    (Compacted /\ Len(all_messages) <= SUMMARIZATION_THRESHOLD) =>
      /\ processed = all_messages
      /\ \A i \in 1..Len(processed) : ~IsSummary(processed[i])
      /\ summarized = <<>>

\* a history of exactly 20 messages was submitted as it is
C17_Witness ==
    /\ Compacted
    /\ Len(all_messages) = 20
    /\ processed = History(20)
    /\ summarized = <<>>

\* C18: for every history longer than the threshold the submission set is
\* one summary message followed by the last 20 messages of the history,
\* verbatim and in the history's order (21 messages for a history of 25), and
\* one summarization call was made.
C18_SummaryAndTail ==
    (Compacted /\ Len(all_messages) > SUMMARIZATION_THRESHOLD) =>
      LET n == Len(all_messages)
      IN /\ Len(processed) = SUMMARIZATION_THRESHOLD + 1
         /\ IsSummary(processed[1])
         /\ \A i \in 1..SUMMARIZATION_THRESHOLD :
              processed[i + 1] = all_messages[n - SUMMARIZATION_THRESHOLD + i]
         /\ Len(summarized) = 1

\* the scenario of the specification: 25 messages give 21, the summary first
\* and then messages 6 to 25
C18_Witness ==
    /\ Compacted
    /\ Len(all_messages) = 25
    /\ Len(processed) = 21
    /\ IsSummary(processed[1])
    /\ [i \in 1..20 |-> processed[i + 1].content[1]] = [i \in 1..20 |-> i + 5]

\* C19 (as claimed): when summarization is triggered, the summarization step
\* is given exactly the messages older than the retained tail (the history
\* without its last 20 messages), whatever the number of messages in the
\* current request.
C19_Claimed ==
    (Compacted /\ Len(all_messages) > SUMMARIZATION_THRESHOLD) =>
      summarized =
        <<SubSeq(all_messages, 1, Len(all_messages) - SUMMARIZATION_THRESHOLD)>>

\* the system prompt has been built (or building it has raised)
PromptBuilt == "prompt" \in built

\* C20 (as claimed): building the prompt never raises; for a hint that is no
\* key of LANGUAGE_PROMPTS, and for an absent or empty hint, the prompt is
\* the base prompt alone; for a recognized hint it is the base prompt
\* followed by one specialization block.
C20_Claimed ==
    PromptBuilt =>
      /\ raised = "none"
      /\ IF language \in DOMAIN LANGUAGE_PROMPTS
         THEN prompt = <<"BASE_SYSTEM_PROMPT", "\n\n", LANGUAGE_PROMPTS[language]>>
         ELSE prompt = <<"BASE_SYSTEM_PROMPT">>

(* ------------- passthrough route: independence of read splits ---------- *)
\* the chunks enqueued for a sequence of complete lines
RECURSIVE UnitsOf(_)
UnitsOf(lines) ==
    IF lines = <<>> THEN <<>>
    ELSE (IF TrimNonEmpty(Head(lines))
          THEN <<Encode(Head(lines) \o <<"n", "n">>)>> ELSE <<>>)
         \o UnitsOf(Tail(lines))

\* the chunks a run enqueues when the upstream delivers `bytes` in one single
\* read, followed by the flush of the remainder if the upstream has ended
WholeRead(bytes, ended) ==
    LET lines == Split(DecodeStream(<<>>, bytes).text)
        rest == lines[Len(lines)]
    IN UnitsOf(SubSeq(lines, 1, Len(lines) - 1))
       \o (IF ended /\ rest # <<>> THEN <<Encode(rest)>> ELSE <<>>)

IsPrefix(p, q) == Len(p) <= Len(q) /\ p = SubSeq(q, 1, Len(p))

\* C21: in the passthrough route the chunks enqueued are those of a single
\* read of the concatenated upstream bytes, in the same order, however the
\* bytes were split into reads (inside a character, inside a payload or
\* between the two newlines of a delimiter); when the consumer cancels, they
\* are a prefix of them.
C21_SplitIndependent ==
    (PassStream /\ upstream.state # "none") =>
      LET whole == WholeRead(upstream.bytes, upstream.state = "done")
      IN /\ IsPrefix(controller.log, whole)
         /\ controller.state # "cancelled" => controller.log = whole

\* reads have ended between the newlines of a delimiter's neighbourhood and
\* inside a two-byte character: the unit enqueued is the one of a single read
C21_Witness ==
    /\ PassStream /\ pc = "pump" /\ controller.state = "open"
    /\ upstream.bytes = <<"x", "n", "n", "n", "c1">>
    /\ buffer = <<"n">> /\ decoder = <<"c1">>
    /\ controller.log = <<(<<"x", "n", "n">>)>>

(* ------------------ fallback route: termination ------------------------ *)
\* one request to the fallback route; a microtask queued with
\* Promise.resolve().then(...) is always run (the microtask queue is drained
\* before the event loop goes on)
InitFallback == Init /\ route = "fallback"

NextFallback ==
    \/ ParseBody
    \/ FetchThrows
    \/ Fetch
    \/ BackendNotOk
    \/ FallbackBadJson
    \/ FallbackRespond
    \/ SendChunkTask
    \/ ConsumerRead
    \/ ConsumerCancel

\* weak fairness of SendChunkTask, WF_vars(SendChunkTask), written out with
\* its enabling condition: the task is enabled exactly when a microtask is
\* pending (pc = "send" and scheduled), and running it always changes the state
SendChunkFair ==
    \/ []<>~(pc = "send" /\ scheduled)
    \/ []<><<SendChunkTask>>_vars

SpecFallback == InitFallback /\ [][NextFallback]_vars /\ SendChunkFair

\* the invocations of sendChunk so far: one per delivered delta, and the one
\* that set isClosed
Invocations == (index \div chunkSize) + (IF isClosed THEN 1 ELSE 0)

\* C22: in the fallback route index grows by chunkSize with every delivered
\* text-delta, sendChunk is invoked at most ceil(L/20)+1 times, and every run
\* comes to its end with isClosed set and no sendChunk scheduled, which then
\* stays so: the event sequence is finite.
C22_Finite ==
    /\ [](FallbackStream =>
            /\ index = chunkSize * Len(Deltas)
            /\ Invocations <= Chunks(Len(assistantMessage)) + 1
            /\ (pc = "done" => isClosed /\ ~scheduled))
    /\ [][(FallbackStream /\ Len(controller'.log) > Len(controller.log)
             /\ IsDelta(controller'.log[Len(controller'.log)]))
            => index' = index + chunkSize]_vars
    /\ (FallbackStream ~> (pc = "done" /\ isClosed /\ ~scheduled))
    /\ [][(FallbackStream /\ pc = "done") => (pc' = "done" /\ ~scheduled')]_vars

\* a text of 45 units has been sent in ceil(45/20)+1 = 4 invocations
C22_Witness ==
    /\ FallbackStream /\ pc = "done"
    /\ Len(assistantMessage) = 45
    /\ index = 60 /\ isClosed /\ ~scheduled
    /\ Invocations = 4

(* ------------------ fallback route: empty assistant text --------------- *)
\* the backend's OK answer has no message, no content, or an empty content
EmptyAnswer ==
    /\ route = "fallback" /\ backendResponse.ok
    /\ backendResponse.body.kind \in {"nomessage", "nocontent", "content"}
    /\ backendResponse.body.content = <<>>

\* C23: when the backend's answer has no message, no content or an empty
\* content, the fallback route still opens the stream, enqueues exactly
\* text-start and text-end with no text-delta, and closes the stream.
C23_EmptyText ==
    (EmptyAnswer /\ pc \notin {"parse", "fetch", "status"}) =>
      /\ response.kind = "stream" /\ response.status = 200
      /\ controller.log = <<startChunk, endChunk>>
      /\ Deltas = <<>>
      /\ pc = "done" /\ isClosed /\ ~scheduled
      /\ controller.state \in {"closeRequested", "closed", "cancelled"}
      /\ controller.state = "closed" => got = <<startChunk, endChunk>>

\* an answer without a message has been answered with text-start and
\* text-end, both read by the consumer, and the stream is closed
C23_Witness ==
    /\ EmptyAnswer /\ backendResponse.body.kind = "nomessage"
    /\ response.kind = "stream"
    /\ controller.state = "closed"
    /\ got = <<startChunk, endChunk>>

(* ---------------- passthrough route: terminal transition --------------- *)
\* the output stream is closed: by the route's controller.close() (at once,
\* or once its queue has drained) or by the consumer's cancel
StreamClosed == controller.state \in {"closeRequested", "closed", "cancelled"}

\* C24 (as claimed): in the passthrough route, when the upstream terminates
\* the output stream reaches its terminal state in that step: closed when
\* read reports done, errored when read throws.
C24_Claimed ==
    [][PassStream =>
         /\ UpstreamCloses => StreamClosed'
         /\ UpstreamFails => controller'.state = "errored"]_vars

\* C24 (amended): the output stream is closed when read reports done, and
\* errored when read throws unless the consumer has cancelled the stream
\* before (it then stays closed), never both; once the upstream has
\* terminated the route reads nothing more and enqueues nothing more, and a
\* closed stream is never errored later nor an errored one closed; a missing
\* upstream body closes the output stream at once with no chunk.
C24_Terminal ==
    /\ [](PassStream =>
            /\ upstream.state = "done" => StreamClosed
            /\ upstream.state = "failed" =>
                 controller.state \in {"errored", "cancelled"}
            /\ upstream.state \in {"done", "failed"} => pc = "done"
            /\ ~backendResponse.hasBody =>
                 /\ controller.log = <<>> /\ controller.state = "closed"
                 /\ upstream.state = "none" /\ pc = "done")
    /\ [][PassStream =>
            /\ upstream.state \in {"done", "failed"} =>
                 /\ upstream' = upstream
                 /\ controller'.log = controller.log
                 /\ pc' = "done"
            /\ UpstreamFails =>
                 controller'.state = IF controller.state = "cancelled"
                                     THEN "cancelled" ELSE "errored"
            /\ StreamClosed => StreamClosed'
            /\ controller.state = "errored" => controller'.state = "errored"]_vars

\* a read has thrown after a unit was enqueued, and the stream is errored
C24_Witness ==
    /\ PassStream /\ upstream.state = "failed" /\ pc = "done"
    /\ controller.state = "errored"
    /\ Len(controller.log) >= 1

(* ---------------- passthrough route: whitespace-only chunks ------------ *)
\* a chunk of nothing but spaces and line feeds
OnlyWhitespace(chunk) == \A i \in 1..Len(chunk) : chunk[i] \in {"s", "n"}

\* C25 (as claimed): the passthrough route never enqueues a chunk consisting
\* only of whitespace, neither while the upstream is open nor in the final
\* flush at upstream close.
C25_Claimed ==
    (reqBody = "valid" /\ PassStream /\ WellFormed(upstream.bytes)) =>
      \A i \in 1..Len(controller.log) : ~OnlyWhitespace(controller.log[i])

(* -------------- passthrough route: OK answer that is no stream --------- *)
\* the backend has answered OK with a content type other than
\* text/event-stream, and the passthrough route has returned
NotSseAnswered ==
    /\ route = "stream" /\ backendResponse.ok
    /\ ~IsEventStream(backendResponse.contentType)
    /\ pc = "done"

\* C26: for an OK answer whose content type is not text/event-stream the
\* passthrough route opens no event stream and returns HTTP 500 JSON; its
\* error field is 'Expected streaming response but received JSON' when the
\* body is JSON, and is non-empty also when the body is not parseable JSON.
C26_NotStreaming ==
    NotSseAnswered =>
      /\ response.kind = "json" /\ response.status = 500
      /\ controller = NoController /\ upstream.state = "none"
      /\ response.error # <<>>
      /\ JsonParses(backendResponse) =>
           response.error = <<"Expected streaming response but received JSON">>

\* both cases: a JSON body answered with the fixed message, and a body that
\* is no JSON answered with the parser's message
C26_Witness ==
    /\ NotSseAnswered
    /\ response.kind = "json" /\ response.status = 500
    /\ \/ /\ backendResponse.contentType = "application/json"
          /\ JsonParses(backendResponse)
          /\ response.error = <<"Expected streaming response but received JSON">>
       \/ /\ ~JsonParses(backendResponse)
          /\ response.error = <<"Unexpected token">>

(* ------------------ both routes: non-OK backend answer ----------------- *)
\* the backend has answered with a non-OK status and the route has returned
NotOkAnswered ==
    /\ pc = "done" /\ fetches > 0
    /\ backendResponse # NoBackendResponse /\ ~backendResponse.ok

DefaultError == <<"Backend error: ">> \o backendResponse.statusText

Sends == Len(sent') > Len(sent)

\* the events by which the user may submit: the form's submit event (button
\* included) and the keys pressed in the textarea
SubmitEvents == {"submit"} \cup { KeyEvent(key, shiftKey) : key \in Keys,
                                                         shiftKey \in BOOLEAN }

\* C28: a message is sent only when the trimmed input is non-empty and
\* isLoading is false, by the form's submit event or by Enter without Shift;
\* Shift+Enter never sends; the content sent is the trimmed input; the input
\* is the empty string after every send, and a submit or key event that sends
\* nothing leaves it unchanged.
C28_Input ==
    [][/\ Sends =>
            /\ Trim(input) # <<>> /\ ~isLoading
            /\ event' \in {"submit", "Enter"}
            /\ Len(sent') = Len(sent) + 1
            /\ SubSeq(sent', 1, Len(sent)) = sent
            /\ sent'[Len(sent')].content = Trim(input)
            /\ input' = <<>>
       /\ event' = "Shift+Enter" => ~Sends
       /\ (~Sends /\ event' \in SubmitEvents) => input' = input]_vars

\* Enter has just sent the first message with its surrounding spaces removed
C28_Witness ==
    /\ event = "Enter" /\ Len(sent) = 1
    /\ sent[1].content = <<"h">> /\ input = <<>>
    /\ status = "submitted"

(* --------------------- Chat component: turns in flight ----------------- *)
\* the requests sent whose response has neither finished nor failed
InFlight == { i \in DOMAIN pending : pending[i] \in {"submitted", "streaming"} }

\* C29 (as claimed): from the moment a message is sent until its response has
\* finished streaming or failed, the interval in which the request is
\* submitted and no event has arrived included, the component sends no second
\* message: at most one turn of a Chat instance is in flight at any time.
C29_Claimed == Cardinality(InFlight) <= 1

====
